---- MODULE Spec2Model ----
(***************************************************************************)
(* A model of ChatBot.py: the Streamlit study-assistant chatbot.           *)
(*                                                                         *)
(* Strings are sequences.  An element is either one character ("a", ".",   *)
(* " ") or a literal chunk of the source's f-strings (for example          *)
(* "(Extracted content: ").  File names, user input and file texts are     *)
(* made of single characters only, so substring search, replacement,      *)
(* lower-casing, stripping and cleaning work on them as they do in Python. *)
(***************************************************************************)
EXTENDS Integers, Sequences, FiniteSets, TLC

VARIABLES
    api_key,            \* os.getenv("GROQ_API_KEY"), fixed for the process
    messages,           \* st.session_state.messages
    uploaded_files,     \* st.session_state.uploaded_files
    document_contents,  \* st.session_state.document_contents (insertion-ordered dict)
    sidebar_upload,     \* the file the sidebar st.file_uploader widget holds (NoFile if none)
    trigger,            \* the widget interaction that started the chain of script runs in progress
    pc,                 \* "idle": waiting for the user; "rerun": st.rerun() is pending
    sent,               \* the completion requests posted by the last script run
    extracted,          \* what DocumentProcessor.process_document returned in the last script run
    uncaught            \* an exception escaped the last script run

vars == << api_key, messages, uploaded_files, document_contents, sidebar_upload,
           trigger, pc, sent, extracted, uncaught >>

-----------------------------------------------------------------------------
(* Python string primitives on sequences of characters.                    *)

WS == {" ", "\n"}

Min(a, b) == IF a < b THEN a ELSE b

\* str.lower() on one character of the model's alphabet
LowerChar(c) ==
    CASE c = "A" -> "a"
      [] c = "B" -> "b"
      [] c = "T" -> "t"
      [] c = "X" -> "x"
      [] c = "P" -> "p"
      [] c = "D" -> "d"
      [] c = "F" -> "f"
      [] OTHER -> c

Lower(s) == [i \in 1..Len(s) |-> LowerChar(s[i])]

\* s[:n]
Take(s, n) == SubSeq(s, 1, Min(Len(s), n))

\* s[n:] for a 1-based first kept position n
From(s, n) == SubSeq(s, n, Len(s))

\* needle in hay
Contains(hay, needle) ==
    \E i \in 1..(Len(hay) - Len(needle) + 1) :
        SubSeq(hay, i, i + Len(needle) - 1) = needle

StartsWith(s, p) == Len(p) <= Len(s) /\ SubSeq(s, 1, Len(p)) = p

\* str.replace(old, new): every non-overlapping occurrence, left to right
RECURSIVE Replace(_, _, _)
Replace(s, old, new) ==
    IF s = <<>> \/ old = <<>> THEN s
    ELSE IF StartsWith(s, old)
         THEN new \o Replace(From(s, Len(old) + 1), old, new)
         ELSE <<s[1]>> \o Replace(Tail(s), old, new)

RECURSIVE LStrip(_)
LStrip(s) == IF s # <<>> /\ s[1] \in WS THEN LStrip(Tail(s)) ELSE s

RECURSIVE RStrip(_)
RStrip(s) ==
    IF s # <<>> /\ s[Len(s)] \in WS THEN RStrip(SubSeq(s, 1, Len(s) - 1)) ELSE s

\* str.strip()
Strip(s) == RStrip(LStrip(s))

\* the truth value of a string: non-empty
Truthy(s) == s # <<>>

RECURSIVE Concat(_)
Concat(ss) == IF ss = <<>> THEN <<>> ELSE ss[1] \o Concat(Tail(ss))

-----------------------------------------------------------------------------
(* Results of calls that may raise.                                        *)

Ret(v) == [raised |-> FALSE, cls |-> "", val |-> v]
Exc(cls, m) == [raised |-> TRUE, cls |-> cls, val |-> m]

\* isinstance(e, base) for the exception classes of the model
IsInstance(cls, base) ==
    \/ cls = base
    \/ base = "Exception"
    \/ cls = "Timeout" /\ base = "RequestException"

-----------------------------------------------------------------------------
(* DocumentProcessor                                                       *)

WordChars ==
    { "a", "b", "c", "d", "e", "f", "g", "h", "i", "j", "k", "l", "m", "n", "o", "p",
      "q", "r", "s", "t", "u", "v", "w", "x", "y", "z", "A", "B", "T", "X", "P", "D",
      "F", "0", "1", "_" }

Punctuation == { ".", ",", "!", "?", ";", ":", "-", "(", ")", "[", "]", "{", "}" }

\* re.sub(r"\s+", " ", text)
RECURSIVE CollapseWhitespace(_)
CollapseWhitespace(s) ==
    IF s = <<>> THEN <<>>
    ELSE IF s[1] \in WS
         THEN <<" ">> \o CollapseWhitespace(LStrip(s))
         ELSE <<s[1]>> \o CollapseWhitespace(Tail(s))

\* re.sub(r"[^\w\s\.\,\!\?\;\:\-\(\)\[\]\{\}]", "", text)
RemoveUnwanted(s) == SelectSeq(s, LAMBDA c : c \in WordChars \cup WS \cup Punctuation)

_clean_text(text) ==
    IF ~Truthy(text) THEN <<>>
    ELSE Strip(CollapseWhitespace(RemoveUnwanted(CollapseWhitespace(text))))

\* os.path.splitext(filepath)[1].lower(): from the last dot of the base name,
\* a leading dot of the base name not counting.
LastDot(name) ==
    LET dots == {i \in 2..Len(name) : name[i] = "."}
    IN  IF dots = {} THEN 0 ELSE CHOOSE i \in dots : \A j \in dots : j <= i

file_extension(name) ==
    IF LastDot(name) = 0 THEN <<>> ELSE Lower(From(name, LastDot(name)))

_process_txt(f) ==
    CASE f.kind = "ok" -> Ret(_clean_text(f.text))
      [] f.kind = "latin1" -> Ret(_clean_text(f.text))
      [] f.kind = "latin1_error" -> Ret(<<"[Error reading TXT file: ">> \o f.msg \o <<"]">>)
      [] OTHER -> Exc("OSError", f.msg)

\* content += extracted + "\n" for every page with a truthy extract_text()
RECURSIVE PdfContent(_)
PdfContent(pages) ==
    IF pages = <<>> THEN <<>>
    ELSE (IF Truthy(pages[1]) THEN pages[1] \o <<"\n">> ELSE <<>>) \o PdfContent(Tail(pages))

_process_pdf(f) ==
    IF f.kind = "ok"
    THEN LET content == PdfContent(f.parts)
         IN  Ret(IF Truthy(content) THEN _clean_text(content)
                 ELSE <<"[No text extracted from PDF]">>)
    ELSE Ret(<<"[Error reading PDF: ">> \o f.msg \o <<"]">>)

\* content += paragraph.text + "\n"
RECURSIVE ParagraphContent(_)
ParagraphContent(ps) ==
    IF ps = <<>> THEN <<>> ELSE ps[1] \o <<"\n">> \o ParagraphContent(Tail(ps))

\* content += cell.text + " "
RECURSIVE CellContent(_)
CellContent(cells) ==
    IF cells = <<>> THEN <<>> ELSE cells[1] \o <<" ">> \o CellContent(Tail(cells))

\* every cell of every row of a table, then "\n" once per table
RECURSIVE TableContent(_)
TableContent(tables) ==
    IF tables = <<>> THEN <<>>
    ELSE CellContent(Concat(tables[1])) \o <<"\n">> \o TableContent(Tail(tables))

_process_word(f) ==
    IF f.kind = "ok"
    THEN LET content == ParagraphContent(f.parts) \o TableContent(f.tables)
         IN  Ret(IF Truthy(content) THEN _clean_text(content)
                 ELSE <<"[No text extracted from Word file]">>)
    ELSE Ret(<<"[Error reading Word document: ">> \o f.msg \o <<"]">>)

\* "tesseract is not installed" in str(e).lower() or "not found" in str(e).lower()
TesseractMissing(msg) ==
    \E i \in 1..Len(msg) : msg[i] \in {"tesseract is not installed", "not found"}

_process_image(f) ==
    IF f.kind = "ok"
    THEN LET cleaned == _clean_text(f.text)
         IN  Ret(IF Truthy(cleaned) THEN cleaned ELSE <<"[No text detected in image]">>)
    ELSE IF TesseractMissing(f.msg)
         THEN Ret(<<"[OCR unavailable: Tesseract not found. Install Tesseract or set TESSERACT_CMD]">>)
         ELSE Ret(<<"[Error reading image: ">> \o f.msg \o <<"]">>)

\* try: ... except Exception as e: return f"[File processing error: {str(e)}]"
DocumentProcessor_process_document(f) ==
    LET ext == file_extension(f.name)
        r == CASE ext = <<".", "t", "x", "t">> -> _process_txt(f)
               [] ext = <<".", "p", "d", "f">> -> _process_pdf(f)
               [] ext \in {<<".", "d", "o", "c", "x">>, <<".", "d", "o", "c">>} -> _process_word(f)
               [] ext \in {<<".", "p", "n", "g">>, <<".", "j", "p", "g">>,
                           <<".", "j", "p", "e", "g">>} -> _process_image(f)
               [] OTHER -> Ret(<<"[Unsupported file format: ">> \o ext \o <<"]">>)
    IN  IF r.raised /\ IsInstance(r.cls, "Exception")
        THEN Ret(<<"[File processing error: ">> \o r.val \o <<"]">>)
        ELSE r

\* a process_document that returns the adapter's text as it is
process_document_unchecked(f) ==
    IF f.save_error
    THEN <<"[File processing error: ">> \o f.msg \o <<"]">>
    ELSE DocumentProcessor_process_document(f).val

\* the module-level process_document(uploaded_file)
process_document(f) ==
    IF f.save_error
    THEN <<"[File processing error: ">> \o f.msg \o <<"]">>
    ELSE LET r == DocumentProcessor_process_document(f)
         IN  IF r.raised /\ IsInstance(r.cls, "Exception")
             THEN <<"[File processing error: ">> \o r.val \o <<"]">>
             ELSE IF Truthy(Strip(r.val)) THEN r.val ELSE <<"[No text extracted]">>

-----------------------------------------------------------------------------
(* Session state helpers: document_contents is a dict, kept in insertion    *)
(* order, modelled as a sequence of [fname, content] with distinct fnames.  *)

Keys(docs) == {docs[i].fname : i \in 1..Len(docs)}

\* document_contents[fname] = content
SetItem(docs, fname, content) ==
    IF fname \in Keys(docs)
    THEN [i \in 1..Len(docs) |->
            IF docs[i].fname = fname THEN [fname |-> fname, content |-> content] ELSE docs[i]]
    ELSE Append(docs, [fname |-> fname, content |-> content])

\* document_contents.pop(fname, None)
PopKey(docs, fname) == SelectSeq(docs, LAMBDA d : d.fname # fname)

\* list.pop(i) for a 1-based i
PopIndex(s, i) == SubSeq(s, 1, i - 1) \o SubSeq(s, i + 1, Len(s))

-----------------------------------------------------------------------------
(* inject_file_content                                                     *)

SnippetLen == 1000

Substitution(content) ==
    LET extracted_text == IF Truthy(Strip(content)) THEN content
                          ELSE <<"[No text extracted from this file]">>
    IN  <<"(Extracted content: ">> \o Take(extracted_text, SnippetLen) \o <<"...)">>

\* one iteration of the loop over document_contents.items()
InjectOne(user_message, d) ==
    IF Contains(Lower(user_message), Lower(d.fname))
    THEN Replace(user_message, d.fname, Substitution(d.content))
    ELSE user_message

RECURSIVE inject_file_content(_, _)
inject_file_content(user_message, docs) ==
    IF docs = <<>> THEN user_message
    ELSE inject_file_content(InjectOne(user_message, docs[1]), Tail(docs))

-----------------------------------------------------------------------------
(* get_groq_response                                                       *)

MaxTokens == 1000

\* The fixed replies, without the emoji each starts with in the source.
MissingKeyMessage == <<"Missing API key. Please set GROQ_API_KEY in your .env file.">>
NoResponseMessage == <<"No response received.">>
InvalidKeyMessage == <<"Invalid API key. Please check GROQ_API_KEY in your .env file.">>
RateLimitMessage == <<"Too many requests. Please slow down and retry shortly.">>
TimeoutMessage == <<"Request timed out. Please retry.">>
ApiErrorMessage(code, text) == <<"API Error ", ToString(code), ": ">> \o text
NetworkErrorMessage(e) == <<"Network error: ">> \o e
UnexpectedErrorMessage(e) == <<"Unexpected error: ">> \o e

RECURSIVE doc_context_items(_)
doc_context_items(docs) ==
    IF docs = <<>> THEN <<>>
    ELSE LET snippet == IF Truthy(docs[1].content) THEN Take(docs[1].content, SnippetLen)
                        ELSE <<"[No extractable text]">>
         IN  <<"\n--- ">> \o docs[1].fname \o <<" ---\n">> \o snippet \o <<"...\n">>
             \o doc_context_items(Tail(docs))

doc_context(docs) ==
    IF docs = <<>> THEN <<>>
    ELSE <<"\n\n**Available Documents:**\n">> \o doc_context_items(docs)

system_msg(docs) ==
    <<"You are LectureBuddies, an AI chatbot designed for education. Answer clearly, summarize effectively, and explain concepts step by step.">>
    \o (IF Truthy(doc_context(docs)) THEN <<" Available Documents: ">> \o doc_context(docs)
        ELSE <<>>)
    \o <<"\n\nGuidelines: ... stay professional yet supportive.">>

Turn(role, content) == [role |-> role, content |-> content]

\* a build_messages that puts the current user turn before the history
build_messages_user_first(history, docs, user_input) ==
    <<Turn("system", system_msg(docs)), Turn("user", user_input)>>
    \o [i \in 1..Len(history) |-> Turn(history[i].role, history[i].content)]

\* messages = [...session messages...]; insert(0, system); append(user)
build_messages(history, docs, user_input) ==
    <<Turn("system", system_msg(docs))>>
    \o [i \in 1..Len(history) |-> Turn(history[i].role, history[i].content)]
    \o <<Turn("user", user_input)>>

build_payload(history, docs, user_input) ==
    [model |-> "llama-3.1-8b-instant",
     messages |-> build_messages(history, docs, user_input),
     temperature |-> "0.7",
     max_tokens |-> MaxTokens]

\* the body of the try block: requests.post and the branches on resp.status_code
try_request(outcome) ==
    CASE outcome.kind = "timeout" -> Exc("Timeout", outcome.text)
      [] outcome.kind = "request_exception" -> Exc("RequestException", outcome.text)
      [] outcome.kind = "exception" -> Exc("Exception", outcome.text)
      [] outcome.kind = "response" /\ outcome.status_code = 200 ->
            (CASE outcome.body = "content" -> Ret(outcome.content)
               [] outcome.body = "no_content" -> Ret(NoResponseMessage)
               [] OTHER -> Exc("IndexError", <<"list index out of range">>))
      [] outcome.kind = "response" /\ outcome.status_code = 401 -> Ret(InvalidKeyMessage)
      [] outcome.kind = "response" /\ outcome.status_code = 429 -> Ret(RateLimitMessage)
      [] OTHER -> Ret(ApiErrorMessage(outcome.status_code, outcome.text))

\* a response_text whose first except clause is RequestException
response_text_misordered(outcome) ==
    LET r == try_request(outcome)
    IN  IF ~r.raised THEN r
        ELSE IF IsInstance(r.cls, "RequestException") THEN Ret(NetworkErrorMessage(r.val))
        ELSE IF IsInstance(r.cls, "Timeout") THEN Ret(TimeoutMessage)
        ELSE IF IsInstance(r.cls, "Exception") THEN Ret(UnexpectedErrorMessage(r.val))
        ELSE r

\* the try block with its except clauses, in the source's order
response_text(outcome) ==
    LET r == try_request(outcome)
    IN  IF ~r.raised THEN r
        ELSE IF IsInstance(r.cls, "Timeout") THEN Ret(TimeoutMessage)
        ELSE IF IsInstance(r.cls, "RequestException") THEN Ret(NetworkErrorMessage(r.val))
        ELSE IF IsInstance(r.cls, "Exception") THEN Ret(UnexpectedErrorMessage(r.val))
        ELSE r

\* a post_requests that posts the same request a second time
post_requests_retry(payload, user_input, outcome) ==
    << [payload |-> payload, user_input |-> user_input, outcome |-> outcome],
       [payload |-> payload, user_input |-> user_input, outcome |-> outcome] >>

\* the requests.post calls one invocation makes, each with its payload and outcome
post_requests(payload, user_input, outcome) ==
    << [payload |-> payload, user_input |-> user_input, outcome |-> outcome] >>

\* returns the reply (or the exception that escapes) and the requests it posted
get_groq_response(user_input, history, docs, key, outcome) ==
    IF ~Truthy(key) \/ Strip(key) = <<>>
    THEN [reply |-> MissingKeyMessage, raised |-> FALSE, posted |-> <<>>]
    ELSE LET r == response_text(outcome)
         IN  [reply |-> r.val, raised |-> r.raised,
              posted |-> post_requests(build_payload(history, docs, user_input),
                                       user_input, outcome)]

-----------------------------------------------------------------------------
(* Inputs.                                                                 *)

MaxExchanges == 2   \* user/assistant exchanges in one conversation before the model stops submitting
MaxUploads == 1     \* documents held at once in the extraction specification

File(name, save_error, kind, text, parts, tables, msg) ==
    [name |-> name, save_error |-> save_error, kind |-> kind, text |-> text,
     parts |-> parts, tables |-> tables, msg |-> msg]

\* st.file_uploader returns None
NoFile == File(<<>>, FALSE, "none", <<>>, <<>>, <<>>, <<>>)

a_txt == <<"a", ".", "t", "x", "t">>
b_txt == <<"b", ".", "t", "x", "t">>
hi == <<"h", "i">>

\* the documents of the conversation specification: a.txt reads "b.txt", b.txt reads "hi"
SessionFiles ==
    { File(a_txt, FALSE, "ok", b_txt, <<>>, <<>>, <<>>),
      File(b_txt, FALSE, "ok", hi, <<>>, <<>>, <<>>) }

\* the documents of the file-list specification: with a second a.txt, which reads
\* "hi", and a second b.txt, which reads "a.txt"
SharedNameFiles ==
    SessionFiles \cup { File(a_txt, FALSE, "ok", hi, <<>>, <<>>, <<>>),
                        File(b_txt, FALSE, "ok", a_txt, <<>>, <<>>, <<>>) }

ChatInputs == { a_txt, <<"A", ".", "T", "X", "T">>, <<" ">> }

presets ==
    { <<"I need help understanding this homework assignment. Can you explain step-by-step?">>,
      <<"I'm studying this concept but finding it difficult. Can you explain clearly with examples?">>,
      <<"I want to improve my study efficiency. What study strategies should I use?">> }

ApiKeys == { <<"g", "s", "k">>, <<" ">> }

Outcome(kind, status_code, body, content, text) ==
    [kind |-> kind, status_code |-> status_code, body |-> body, content |-> content,
     text |-> text]

NoOutcome == Outcome("none", 0, "none", <<>>, <<>>)

Outcomes ==
    { Outcome("response", 200, "content", <<"o", "k">>, <<>>),
      Outcome("response", 200, "no_content", <<>>, <<>>),
      Outcome("response", 200, "empty_choices", <<>>, <<>>),
      Outcome("response", 401, "none", <<>>, <<"unauthorized">>),
      Outcome("response", 429, "none", <<>>, <<"rate limited">>),
      Outcome("response", 500, "none", <<>>, <<"server error">>),
      Outcome("timeout", 0, "none", <<>>, <<>>),
      Outcome("request_exception", 0, "none", <<>>, <<"connection refused">>),
      Outcome("exception", 0, "none", <<>>, <<"boom">>) }

Texts == { hi, <<>>, <<" ", "\n">>, <<"#">>, <<"h", " ", "\n", "i", "#">> }

Ext(e) ==
    CASE e = "txt" -> <<".", "t", "x", "t">>
      [] e = "TXT" -> <<".", "T", "X", "T">>
      [] e = "pdf" -> <<".", "p", "d", "f">>
      [] e = "docx" -> <<".", "d", "o", "c", "x">>
      [] e = "doc" -> <<".", "d", "o", "c">>
      [] e = "png" -> <<".", "p", "n", "g">>
      [] e = "jpg" -> <<".", "j", "p", "g">>
      [] e = "jpeg" -> <<".", "j", "p", "e", "g">>
      [] OTHER -> <<".", "g", "i", "f">>

Named(e) == <<"n">> \o Ext(e)

io_error == <<"No such file or directory">>

TxtFiles ==
    { File(Named(e), FALSE, k, t, <<>>, <<>>, <<>>) :
        e \in {"txt", "TXT"}, k \in {"ok", "latin1"}, t \in Texts }
    \cup { File(Named("txt"), FALSE, k, <<>>, <<>>, <<>>, io_error) :
             k \in {"latin1_error", "error"} }

PdfFiles ==
    { File(Named("pdf"), FALSE, "ok", <<>>, ps, <<>>, <<>>) :
        ps \in {<<>>, <<hi>>, << <<>> >>, << <<" ">> >>, <<hi, <<>>, <<"#">> >>} }
    \cup { File(Named("pdf"), FALSE, "error", <<>>, <<>>, <<>>, <<"EOF marker not found">>) }

WordFiles ==
    { File(Named(e), FALSE, "ok", <<>>, ps, ts, <<>>) :
        e \in {"docx", "doc"},
        ps \in {<<>>, <<hi>>, << <<>> >>},
        ts \in {<<>>, << << <<hi, hi>> >> >>, << << << <<>> >> >> >>} }
    \cup { File(Named(e), FALSE, "error", <<>>, <<>>, <<>>, <<"Package not found">>) :
             e \in {"docx", "doc"} }

ImageFiles ==
    { File(Named(e), FALSE, "ok", t, <<>>, <<>>, <<>>) :
        e \in {"png", "jpg", "jpeg"}, t \in Texts }
    \cup { File(Named(e), FALSE, "error", <<>>, <<>>, <<>>, m) :
             e \in {"png", "jpg", "jpeg"},
             m \in {<<"tesseract is not installed">>, <<"cannot identify image file">>} }

OtherFiles ==
    { File(Named("gif"), FALSE, "ok", hi, <<>>, <<>>, <<>>),
      File(Named("txt"), TRUE, "ok", hi, <<>>, <<>>, <<"Permission denied">>) }

ExtractionFiles == TxtFiles \cup PdfFiles \cup WordFiles \cup ImageFiles \cup OtherFiles

-----------------------------------------------------------------------------
(* The script: one run from top to bottom, or to the first st.rerun().     *)

Event(widget, value, index) == [widget |-> widget, value |-> value, index |-> index]

NoEvent == Event("none", <<>>, 0)

\* what the session remembers of an event: the widget and its value
Shown(ev) == [widget |-> ev.widget, value |-> ev.value]

NotCalled == [called |-> FALSE, raised |-> FALSE, val |-> <<>>]

\* the script stops at an exception no except clause caught: the turns appended so far stay
Abort(ss) == [ss EXCEPT !.uncaught = TRUE, !.rerun = FALSE]

\* the session state a script run starts from
Session ==
    [messages |-> messages, uploaded_files |-> uploaded_files,
     document_contents |-> document_contents, sent |-> <<>>, extracted |-> NotCalled,
     rerun |-> FALSE, uncaught |-> FALSE]

\* a Clear Chat that resets the whole session
clear_chat_handler_reset_all(ss) ==
    [ss EXCEPT !.messages = <<>>, !.uploaded_files = <<>>, !.document_contents = <<>>,
               !.rerun = TRUE]

\* if st.button("Clear Chat"): messages.clear(); st.rerun()
clear_chat_handler(ss) == [ss EXCEPT !.messages = <<>>, !.rerun = TRUE]

\* what doc_processor.process_document returned inside process_document(f)
adapter_call(f) ==
    IF f.save_error THEN NotCalled
    ELSE LET r == DocumentProcessor_process_document(f)
         IN  [called |-> TRUE, raised |-> r.raised, val |-> r.val]

\* if sidebar_upload and sidebar_upload.name not in document_contents: ...
upload_handler(ss, f) ==
    [ss EXCEPT !.document_contents = SetItem(@, f.name, process_document(f)),
               !.uploaded_files = Append(@, [filename |-> f.name]),
               !.extracted = adapter_call(f),
               !.rerun = TRUE]

\* a delete handler that forgets the stored text
delete_handler_list_only(ss, i) ==
    [ss EXCEPT !.uploaded_files = PopIndex(@, i), !.rerun = TRUE]

\* if st.button(key=f"del_file_{i}"): pop(i); pop(fname, None); st.rerun()
delete_handler(ss, i) ==
    LET fname == ss.uploaded_files[i].filename
    IN  [ss EXCEPT !.uploaded_files = PopIndex(@, i),
                   !.document_contents = PopKey(@, fname),
                   !.rerun = TRUE]

preset_handler(ss, prompt, key, outcome) ==
    LET with_user == Append(ss.messages, Turn("user", prompt))
        r == get_groq_response(prompt, with_user, ss.document_contents, key, outcome)
    IN  IF r.raised
        THEN Abort([ss EXCEPT !.messages = with_user, !.sent = @ \o r.posted])
        ELSE [ss EXCEPT !.messages = Append(with_user, Turn("assistant", r.reply)),
                        !.sent = @ \o r.posted,
                        !.rerun = TRUE]

\* a chat input handler that stores the user turn after the reply
chat_input_handler_reply_first(ss, user_input, key, outcome) ==
    LET final_input == inject_file_content(Strip(user_input), ss.document_contents)
        r == get_groq_response(final_input, ss.messages, ss.document_contents, key, outcome)
    IN  [ss EXCEPT !.messages = @ \o <<Turn("assistant", r.reply),
                                      Turn("user", Strip(user_input))>>,
                   !.sent = @ \o r.posted,
                   !.rerun = TRUE]

chat_input_handler(ss, user_input, key, outcome) ==
    LET final_input == inject_file_content(Strip(user_input), ss.document_contents)
        with_user == Append(ss.messages, Turn("user", Strip(user_input)))
        r == get_groq_response(final_input, with_user, ss.document_contents, key, outcome)
    IN  IF r.raised
        THEN Abort([ss EXCEPT !.messages = with_user, !.sent = @ \o r.posted])
        ELSE [ss EXCEPT !.messages = Append(with_user, Turn("assistant", r.reply)),
                        !.sent = @ \o r.posted,
                        !.rerun = TRUE]

Script(ss, upload, ev, key, outcome) ==
    IF ev.widget = "clear_chat"
    THEN clear_chat_handler(ss)
    ELSE IF upload # NoFile /\ upload.name \notin Keys(ss.document_contents)
    THEN upload_handler(ss, upload)
    ELSE IF ev.widget = "del_file" /\ ev.index \in 1..Len(ss.uploaded_files)
    THEN delete_handler(ss, ev.index)
    ELSE IF ss.messages = <<>> /\ ev.widget = "preset"
    THEN preset_handler(ss, ev.value, key, outcome)
    ELSE IF ev.widget = "chat_input" /\ Truthy(ev.value) /\ Truthy(Strip(ev.value))
    THEN chat_input_handler(ss, ev.value, key, outcome)
    ELSE ss

\* the session after a script run that left the result r
Commit(r, upload, ev) ==
    /\ messages' = r.messages
    /\ uploaded_files' = r.uploaded_files
    /\ document_contents' = r.document_contents
    /\ sent' = r.sent
    /\ extracted' = r.extracted
    /\ uncaught' = r.uncaught
    /\ pc' = IF r.rerun THEN "rerun" ELSE "idle"
    /\ sidebar_upload' = upload
    /\ trigger' = IF ~r.rerun THEN Shown(NoEvent)
                  ELSE IF ev = NoEvent THEN trigger ELSE Shown(ev)
    /\ UNCHANGED api_key

\* a script run with the uploader holding `upload`, started by the widget event ev
Run(upload, ev, outcome) == Commit(Script(Session, upload, ev, api_key, outcome), upload, ev)

-----------------------------------------------------------------------------
(* Actions: the user's interactions, each followed by the script run it     *)
(* starts, and the rerun a handler asked for.                               *)

Init ==
    /\ api_key \in ApiKeys
    /\ messages = <<>>
    /\ uploaded_files = <<>>
    /\ document_contents = <<>>
    /\ sidebar_upload = NoFile
    /\ trigger = Shown(NoEvent)
    /\ pc = "idle"
    /\ sent = <<>>
    /\ extracted = NotCalled
    /\ uncaught = FALSE

ClickClearChat ==
    /\ pc = "idle"
    /\ Run(sidebar_upload, Event("clear_chat", <<>>, 0), NoOutcome)

UploadFile(f) ==
    /\ pc = "idle"
    /\ Run(f, Event("sidebar_uploader", <<>>, 0), NoOutcome)

UploadSessionFile == \E f \in SessionFiles : UploadFile(f)

UploadSharedNameFile == \E f \in SharedNameFiles : UploadFile(f)

UploadAnyFile ==
    /\ Len(document_contents) < MaxUploads
    /\ \E f \in ExtractionFiles : UploadFile(f)

\* the user removes the file from the uploader widget
RemoveUpload ==
    /\ pc = "idle"
    /\ sidebar_upload # NoFile
    /\ Run(NoFile, Event("sidebar_uploader", <<>>, 0), NoOutcome)

ClickDelete ==
    /\ pc = "idle"
    /\ \E i \in 1..Len(uploaded_files) :
         Run(sidebar_upload, Event("del_file", uploaded_files[i].filename, i), NoOutcome)

\* the preset buttons are rendered only while the conversation is empty
ClickPreset ==
    /\ pc = "idle"
    /\ messages = <<>>
    /\ MaxExchanges > 0
    /\ \E prompt \in presets, outcome \in Outcomes :
         Run(sidebar_upload, Event("preset", prompt, 0), outcome)

SubmitChat ==
    /\ pc = "idle"
    /\ Len(messages) < 2 * MaxExchanges
    /\ \E user_input \in ChatInputs, outcome \in Outcomes :
         Run(sidebar_upload, Event("chat_input", user_input, 0), outcome)

\* st.rerun(): the script runs again, no widget reporting an interaction
Rerun ==
    /\ pc = "rerun"
    /\ Run(sidebar_upload, NoEvent, NoOutcome)

Next ==
    \/ ClickClearChat
    \/ UploadSessionFile
    \/ RemoveUpload
    \/ ClickDelete
    \/ ClickPreset
    \/ SubmitChat
    \/ Rerun

Spec == Init /\ [][Next]_vars

NextUpload ==
    \/ UploadAnyFile
    \/ RemoveUpload
    \/ ClickDelete
    \/ Rerun

SpecUpload == Init /\ [][NextUpload]_vars

NextFiles ==
    \/ UploadSharedNameFile
    \/ RemoveUpload
    \/ ClickDelete
    \/ Rerun

SpecFiles == Init /\ [][NextFiles]_vars

-----------------------------------------------------------------------------
(* Properties.                                                             *)

Names(files) == {files[i].filename : i \in 1..Len(files)}

LastTurn == messages[Len(messages)]

\* the messages of the k-th request of the last script run
Submitted(k) == sent[k].payload.messages

\* C1: the message list get_groq_response submits has exactly one system turn, at
\* index 0; its last element is the current user input with role user; in between
\* are the stored history turns, in their order, none dropped or altered.  (When
\* the request has been posted the stored history is the conversation less the
\* reply just appended.)
C1_SystemFirstUserLast ==
    \A k \in 1..Len(sent) :
        LET m == Submitted(k)
        IN  /\ Len(m) >= 2
            /\ m[1].role = "system"
            /\ \A i \in 2..Len(m) : m[i].role # "system"
            /\ m[Len(m)] = [role |-> "user", content |-> sent[k].user_input]
            /\ SubSeq(m, 2, Len(m) - 1) = SubSeq(messages, 1, Len(messages) - 1)

\* a request whose history holds an earlier exchange and the current user turn
C1_Witness ==
    /\ Len(sent) = 1
    /\ Len(Submitted(1)) >= 5
    /\ Submitted(1)[2] # Submitted(1)[4]

\* C3: every entry of document_contents holds a string that is not empty and not
\* whitespace only.
C3_StoredTextNonBlank ==
    \A i \in 1..Len(document_contents) : Strip(document_contents[i].content) # <<>>

\* a stored entry for which the extraction adapter returned the empty string
C3_Witness ==
    /\ extracted.called
    /\ extracted.val = <<>>
    /\ Len(document_contents) = 1
    /\ document_contents[1].content = <<"[No text extracted]">>

\* C5: a 401 yields the fixed invalid-API-key message, a 429 the fixed rate-limit
\* message, a timeout the fixed timeout message; a network error and any other
\* exception yield their own messages; the five are pairwise distinct; no outcome
\* of the request lets an exception escape get_groq_response.
C5_ReplyOfOutcome ==
    /\ ~uncaught
    /\ \A k \in 1..Len(sent) :
         LET o == sent[k].outcome
             reply == LastTurn.content
             lead == reply[1]
             fixed == { "Invalid API key. Please check GROQ_API_KEY in your .env file.",
                        "Too many requests. Please slow down and retry shortly.",
                        "Request timed out. Please retry.",
                        "Network error: ",
                        "Unexpected error: " }
         IN  /\ LastTurn.role = "assistant"
             /\ Cardinality(fixed) = 5
             /\ o.kind = "response" /\ o.status_code = 401 =>
                    reply = <<"Invalid API key. Please check GROQ_API_KEY in your .env file.">>
             /\ o.kind = "response" /\ o.status_code = 429 =>
                    reply = <<"Too many requests. Please slow down and retry shortly.">>
             /\ o.kind = "timeout" => reply = <<"Request timed out. Please retry.">>
             /\ o.kind = "request_exception" => lead = "Network error: "
             /\ o.kind = "exception" => lead = "Unexpected error: "

\* a request that timed out has been answered
C5_Witness ==
    /\ Len(sent) = 1
    /\ sent[1].outcome.kind = "timeout"
    /\ LastTurn.role = "assistant"

\* C6: Clear Chat leaves the conversation empty and document_contents and
\* uploaded_files as they were, in the run the click starts and in the rerun that
\* follows it.
C6_ClearChatFrame ==
    [][ (trigger'.widget = "clear_chat" \/ trigger.widget = "clear_chat") =>
            /\ messages' = <<>>
            /\ document_contents' = document_contents
            /\ uploaded_files' = uploaded_files ]_vars

\* Clear Chat was clicked with a document uploaded and still held by the uploader
C6_Witness ==
    /\ trigger.widget = "clear_chat"
    /\ pc = "rerun"
    /\ messages = <<>>
    /\ Len(document_contents) = 2
    /\ sidebar_upload # NoFile

\* the text the user typed in the chat input, as the handler reads it
Typed == Strip(trigger.value)

\* the content of the last turn of the request: the current user turn
CurrentUserTurn == Submitted(1)[Len(Submitted(1))].content

Mentioned(d) == Contains(Lower(Typed), Lower(d.fname))

Spliced(d) == Contains(CurrentUserTurn, Substitution(d.content))

ChatRequestPosted == trigger.widget = "chat_input" /\ Len(sent) = 1

\* C2: for every uploaded document whose filename appears in the chat message
\* (case-insensitively), the current user turn sent to the model contains the
\* "(Extracted content: ...)" substitution for it and no longer the filename.
C2_MentionSubstituted ==
    ChatRequestPosted =>
        \A i \in 1..Len(document_contents) :
            LET d == document_contents[i]
            IN  Mentioned(d) => Spliced(d) /\ ~Contains(CurrentUserTurn, d.fname)

\* C9: only documents whose filename appears (case-insensitively) in the message
\* as the user typed it are spliced in: a document the user did not mention never
\* has its content spliced into the message, whatever the other documents hold
\* and whatever their order.
C9_UnmentionedNeverSpliced ==
    ChatRequestPosted =>
        \A i \in 1..Len(document_contents) :
            LET d == document_contents[i]
            IN  ~Mentioned(d) => ~Spliced(d)

SupportedExtensions ==
    { <<".", "t", "x", "t">>, <<".", "p", "d", "f">>, <<".", "d", "o", "c", "x">>,
      <<".", "d", "o", "c">>, <<".", "p", "n", "g">>, <<".", "j", "p", "g">>,
      <<".", "j", "p", "e", "g">> }

\* C4: for every supported extension and every outcome of the read or parse step,
\* DocumentProcessor.process_document returns a non-empty string and never raises.
C4_AdapterNonEmpty ==
    extracted.called /\ file_extension(sidebar_upload.name) \in SupportedExtensions =>
        ~extracted.raised /\ Strip(extracted.val) # <<>>

\* C7: after the delete action and the reruns it starts, the deleted filename is
\* absent from document_contents and from uploaded_files.
C7_DeletedIsAbsent ==
    trigger.widget = "del_file" =>
        /\ trigger.value \notin Keys(document_contents)
        /\ trigger.value \notin Names(uploaded_files)

FailureLeads ==
    { "Invalid API key. Please check GROQ_API_KEY in your .env file.",
      "Too many requests. Please slow down and retry shortly.",
      "Request timed out. Please retry.",
      "Network error: ", "Unexpected error: ", "API Error ", "No response received." }

\* the reply is the result of the request: the model's text on success, a failure
\* message otherwise
IsResultOf(reply, o) ==
    IF o.kind = "response" /\ o.status_code = 200 /\ o.body = "content"
    THEN reply = o.content
    ELSE reply[1] \in FailureLeads

Submits == pc = "idle" /\ trigger'.widget \in {"chat_input", "preset"}

\* the run appended the user's turn and one assistant turn, in this order
AppendedExchange ==
    /\ Len(messages') = Len(messages) + 2
    /\ SubSeq(messages', 1, Len(messages)) = messages
    /\ messages'[Len(messages) + 1] = [role |-> "user", content |-> Strip(trigger'.value)]
    /\ messages'[Len(messages) + 2].role = "assistant"

Alternates ==
    /\ Len(messages) % 2 = 0
    /\ \A i \in 1..Len(messages) :
         messages[i].role = IF i % 2 = 1 THEN "user" ELSE "assistant"

IsPrefix(s, t) == Len(s) <= Len(t) /\ SubSeq(t, 1, Len(s)) = s

\* C10: the conversation changes only by appending at its end or by Clear Chat
\* emptying it, and between interactions it alternates user, assistant, starting
\* with a user turn and ending with an assistant turn.
C10_AppendOnlyAlternating ==
    /\ []Alternates
    /\ [][ \/ IsPrefix(messages, messages')
           \/ messages' = <<>> /\ trigger'.widget = "clear_chat" ]_vars

\* two exchanges stand in the conversation, from a preset and from the chat input
C10_Witness ==
    /\ pc = "idle"
    /\ Len(messages) = 4
    /\ messages[1].content \in presets
    /\ messages[3].content = a_txt

\* uploaded_files lists each key of document_contents once, and nothing else
FilesMatchContents ==
    /\ Cardinality(Names(uploaded_files)) = Len(uploaded_files)
    /\ Names(uploaded_files) = Keys(document_contents)

\* the user puts into the uploader another file whose name is already a key
UploadsKnownName ==
    /\ pc = "idle"
    /\ sidebar_upload' # sidebar_upload
    /\ sidebar_upload' # NoFile
    /\ sidebar_upload'.name \in Keys(document_contents)

\* the user clicks the delete button of a listed file
Deletes == pc = "idle" /\ trigger'.widget = "del_file"

\* the stored entries other than fname are kept, in their order
OthersKept(fname) ==
    /\ document_contents' = SelectSeq(document_contents, LAMBDA d : d.fname # fname)
    /\ uploaded_files' = SelectSeq(uploaded_files, LAMBDA u : u.filename # fname)
    /\ Len(uploaded_files') = Len(uploaded_files) - 1

\* C11: the filenames in uploaded_files are pairwise distinct and are exactly the
\* keys of document_contents; uploading a file whose name is already a key extracts
\* nothing and leaves both structures and the stored text unchanged; deleting the
\* entry at any index removes that one filename from both.
C11_FilesMatchContents ==
    /\ []FilesMatchContents
    /\ [][ UploadsKnownName =>
             /\ ~extracted'.called
             /\ document_contents' = document_contents
             /\ uploaded_files' = uploaded_files ]_vars
    /\ [][ Deletes =>
             /\ trigger'.value \in Keys(document_contents)
             /\ trigger'.value \notin Keys(document_contents')
             /\ trigger'.value \notin Names(uploaded_files')
             /\ OthersKept(trigger'.value) ]_vars

\* two files are listed and the uploader holds an a.txt other than the one stored
C11_Witness ==
    /\ pc = "idle"
    /\ Len(uploaded_files) = 2
    /\ sidebar_upload # NoFile
    /\ \E i \in 1..Len(document_contents) :
         /\ document_contents[i].fname = sidebar_upload.name
         /\ document_contents[i].content # process_document(sidebar_upload)

\* C12: a request made for a chat input message holds that message once, as its
\* final turn: between the system turn and the final turn are exactly the turns
\* the conversation held before the message was submitted.  (When the request has
\* been posted these are the conversation less the user turn and the reply just
\* appended.)
C12_CurrentMessageOnce ==
    ChatRequestPosted =>
        LET m == Submitted(1)
        IN  /\ m[Len(m)].role = "user"
            /\ SubSeq(m, 2, Len(m) - 1) = SubSeq(messages, 1, Len(messages) - 2)

====
